---- MODULE Spec2Model ----
(***************************************************************************)
(* Model of the venus-backend authentication server.                       *)
(*                                                                         *)
(* The repository holds three versions of the route handlers:              *)
(*   "production": src/unnamed/part_000;                                   *)
(*   "first":      src/server.js:1-276 (the store statements of            *)
(*                 production, another verifyToken, other texts in the     *)
(*                 responses of request-reset, no change-password route);  *)
(*   "local":      src/server.js:278-474 (signup without a lookup, login   *)
(*                 reading table users, request-reset without a lookup,    *)
(*                 no me route).                                           *)
(* The variable variant says which one is deployed.  Spec follows the      *)
(* signup and reset flows of "production" and "local" over the life of a   *)
(* reset code; SpecSession follows the token flows of all three over the   *)
(* life of a session token; SpecAccount follows every flow of one account  *)
(* of "production" and "local"; SpecLive adds the failures of the store.   *)
(*                                                                         *)
(* A handler runs from one await to the next without interruption, and     *)
(* handlers of concurrent requests interleave at every await.  A step of   *)
(* the model is the store statement (or bcrypt.compare, or sendOtpEmail)   *)
(* that settles, with the code that follows it up to the next await of a   *)
(* store statement, of bcrypt.compare or of sendOtpEmail (bcrypt.hash      *)
(* reads and writes nothing shared and is taken with the statement that    *)
(* follows it).  The code that runs when a request arrives is taken with   *)
(* the first statement when it reads nothing shared (signup, login,        *)
(* request-reset, verify-reset) and is a step of its own when verifyToken  *)
(* reads the clock (change-password, me).                                  *)
(***************************************************************************)
EXTENDS Integers, Sequences, FiniteSets, TLC

\* ---------------------------------------------------------------- bounds
NumProcs == 2
MaxTime == 5
MaxReq == 4
MaxSessionTime == 90

\* ------------------------------------------------------ program constants
OTP_EXP_MINUTES == 5
SALT_ROUNDS == 10
TOKEN_EXP_MINUTES == 60
JWT_SECRET == "4578ppoo9098989988925155222"

\* ------------------------------------------------------------ input sets
Variants == {"production", "local"}
SessionVariants == {"production", "first", "local"}
Procs == 1..NumProcs
\* the salts bcrypt draws
Salts == {"salt1"}
EmailInputs == {"a@x.com", "b@x.com", "a.x.com"}
Emails == {"a@x.com", "b@x.com"}
\* passwords sent to signup, to login (and as oldPassword), and as newPassword
SignupPasswords == {"secret1", "abc"}
\* the bodies sent to signup: two addresses, a word that is no address, a
\* password that is too short
SignupBodies ==
  {<<"a@x.com", "secret1">>, <<"b@x.com", "secret1">>, <<"a.x.com", "secret1">>,
   <<"a@x.com", "abc">>}
LoginPasswords == {"secret1", "secret2"}
NewPasswords == {"secret2", "abc"}
\* floor(Math.random() * 900000) for the draws of Math.random() considered
RandomDraws == {0, 899999}
OtpInputs == {"100000", "999999"}
TickSteps == {OTP_EXP_MINUTES}
SessionTickSteps == {30}

\* a nullable column or an optional value: <<>> is NULL/undefined
NULL == <<>>
Some(v) == <<v>>

VARIABLES
  variant,        \* which version of the handlers runs
  users1,         \* table users1: a set of rows
  users1_id_seq,  \* the SERIAL sequence of users1.id: the next value
  now,            \* the clock (minutes): NOW() and Date.now()
  pc,             \* pc[p]: where request slot p is in its handler
  req,            \* req[p]: the request and the handler's local variables
  last,           \* the response sent last, with its request
  tokens,         \* session tokens the clients have received
  log,            \* log[e]: the writes applied to the account of email e (history)
  nreq            \* number of requests received

vars == <<variant, users1, users1_id_seq, now, pc, req, last, tokens, log, nreq>>

\* ------------------------------------------------------------- libraries

\* express-validator body('email').isEmail() on the inputs considered
IsEmail(e) == e \in {"a@x.com", "b@x.com"}

\* mutant: any password that is not empty passes
IsLengthMin1(s) == Len(s) >= 1

\* express-validator body('password').isLength({ min: 6 })
IsLengthMin6(s) == Len(s) >= 6

\* validationResult(req).isEmpty()
ValidSignupBody(e, pw) == IsEmail(e) /\ IsLengthMin6(pw)

\* bcrypt.hash(password, SALT_ROUNDS): the digest of a password under a
\* fresh salt, one-way, kept symbolic
BcryptHash(pw, rounds, salt) == [cost |-> rounds, salt |-> salt, key |-> pw]

\* mutant: every password matches every digest
BcryptCompareAny(pw, digest) == TRUE

\* bcrypt.compare(password, digest): rehash under the digest's salt and cost
BcryptCompare(pw, digest) == BcryptHash(pw, digest.cost, digest.salt) = digest

\* generateOtp: String(Math.floor(100000 + Math.random() * 900000))
generateOtp(draw) == ToString(100000 + draw)

\* mutant: the token carries the next value of the id sequence
JwtSignNextId(id, email, secret, t) ==
  [id |-> id + 1, email |-> email, iat |-> t, exp |-> t + TOKEN_EXP_MINUTES, sig |-> secret]

\* jwt.sign({id, email}, secret, {expiresIn: '1h'})
JwtSign(id, email, secret, t) ==
  [id |-> id, email |-> email, iat |-> t, exp |-> t + TOKEN_EXP_MINUTES, sig |-> secret]

\* jwt.verify(token, secret) does not throw
JwtVerifyOk(tok, secret, t) == tok.sig = secret /\ t < tok.exp

\* ------------------------------------------------------------ the store

Row(id, email, password) ==
  [id |-> id, email |-> email, password |-> password,
   reset_otp |-> NULL, reset_expires |-> NULL]

\* SELECT * FROM users1 WHERE email=$1
SelectByEmail(e) == {r \in users1 : r.email = e}

\* SELECT * FROM users1 WHERE id=$1
SelectById(id) == {r \in users1 : r.id = id}

\* mutant: a code is still accepted at the instant it expires
ExpiresAtOrAfter(r, t) == r.reset_expires # NULL /\ r.reset_expires[1] >= t

\* reset_expires > NOW(): a comparison with NULL selects nothing
ExpiresAfter(r, t) == r.reset_expires # NULL /\ r.reset_expires[1] > t

\* reset_otp=$2: a comparison with NULL selects nothing
OtpEquals(r, otp) == r.reset_otp # NULL /\ r.reset_otp[1] = otp

\* SELECT * FROM users1 WHERE email=$1 AND reset_otp=$2 AND reset_expires > NOW()
SelectPendingReset(e, otp, t) ==
  {r \in users1 : r.email = e /\ OtpEquals(r, otp) /\ ExpiresAfter(r, t)}

\* mutant: the email column has no UNIQUE constraint
NoUniqueConstraint(e) == FALSE

\* the UNIQUE constraint on users1.email rejects the row
UniqueViolation(e) == \E r \in users1 : r.email = e

\* mutant: a pending code is kept and only its expiry is renewed
UpdateResetCodeIfNone(e, otp, t) ==
  {IF r.email = e
     THEN [r EXCEPT !.reset_otp = IF @ = NULL THEN Some(otp) ELSE @,
                    !.reset_expires = Some(t + OTP_EXP_MINUTES)]
     ELSE r : r \in users1}

\* mutant: a new code keeps the expiry of the code it replaces
UpdateResetCodeKeepExpiry(e, otp, t) ==
  {IF r.email = e
     THEN [r EXCEPT !.reset_otp = Some(otp),
                    !.reset_expires = IF @ = NULL THEN Some(t + OTP_EXP_MINUTES) ELSE @]
     ELSE r : r \in users1}

\* UPDATE users1 SET reset_otp=$1, reset_expires=NOW() + INTERVAL '5 minutes' WHERE email=$2
UpdateResetCode(e, otp, t) ==
  {IF r.email = e
     THEN [r EXCEPT !.reset_otp = Some(otp), !.reset_expires = Some(t + OTP_EXP_MINUTES)]
     ELSE r : r \in users1}

\* mutant: the UPDATE of verify-reset leaves the code in place
UpdatePasswordKeepReset(e, hashed) ==
  {IF r.email = e THEN [r EXCEPT !.password = hashed] ELSE r : r \in users1}

\* mutant: the UPDATE of verify-reset clears the code and not its expiry
UpdatePasswordClearCodeOnly(e, hashed) ==
  {IF r.email = e THEN [r EXCEPT !.password = hashed, !.reset_otp = NULL] ELSE r : r \in users1}

\* UPDATE users1 SET password=$1, reset_otp=NULL, reset_expires=NULL WHERE email=$2
UpdatePasswordClearReset(e, hashed) ==
  {IF r.email = e
     THEN [r EXCEPT !.password = hashed, !.reset_otp = NULL, !.reset_expires = NULL]
     ELSE r : r \in users1}

\* mutant: the UPDATE has no WHERE clause
UpdatePasswordAllRows(id, hashed) == {[r EXCEPT !.password = hashed] : r \in users1}

\* mutant: the parameters are bound in the wrong order and no row matches
UpdatePasswordNoRow(id, hashed) == users1

\* UPDATE users1 SET password=$1 WHERE id=$2
UpdatePassword(id, hashed) ==
  {IF r.id = id THEN [r EXCEPT !.password = hashed] ELSE r : r \in users1}

\* rows[0] of a result with at most one row
FirstRow(rows) == CHOOSE r \in rows : TRUE

\* ------------------------------------------------- requests and responses

NoReq ==
  [kind |-> "none", email |-> "", password |-> "", otp |-> "", newPassword |-> "",
   header |-> NULL, uid |-> NULL, row |-> NULL, gen |-> 0]

NoResp == [status |-> 0, text |-> "", token |-> NULL, user |-> NULL]

\* res.status(s).json({ error | message : text })
Reply(s, text) == [status |-> s, text |-> text, token |-> NULL, user |-> NULL]

\* res.json({ token, user: { id, email } })
ReplyLogin(tok, user) ==
  [status |-> 200, text |-> "", token |-> Some(tok),
   user |-> Some([id |-> user.id, email |-> user.email])]

\* mutant: the profile is the row of SELECT *
ReplyUserWholeRow(r) == [status |-> 200, text |-> "", token |-> NULL, user |-> Some(r)]

\* res.json({ user: rows[0] }) of SELECT id, email
ReplyUser(r) ==
  [status |-> 200, text |-> "", token |-> NULL, user |-> Some([id |-> r.id, email |-> r.email])]

\* the Authorization headers a client may send, as header.split(' '): none,
\* another scheme, a token it received, or a token signed with another secret
ForgedTokens == {[id |-> 1, email |-> "a@x.com", iat |-> 0, exp |-> TOKEN_EXP_MINUTES, sig |-> "guess"]}
Headers ==
  {NULL} \cup {<<"Basic", t>> : t \in tokens}
         \cup {<<"Bearer", t>> : t \in tokens \cup ForgedTokens}

\* and headers with no token after the scheme or with a word after the token
SessionHeaders ==
  Headers \cup {<<"Bearer">>} \cup {<<"Bearer", t, "x">> : t \in tokens}

\* the test of the parts of the header: "first" destructures
\* [type, token] and tests type !== "Bearer" || !token, the other two
\* versions test parts.length !== 2 || parts[0] !== 'Bearer'
Malformed(v, header) ==
  IF v = "first" THEN Len(header) < 2 \/ header[1] # "Bearer"
  ELSE Len(header) # 2 \/ header[1] # "Bearer"

\* verifyToken: the response it sends, NoResp when it calls next()
verifyToken(v, header, t) ==
  IF header = NULL THEN Reply(401, "No token provided")
  ELSE IF Malformed(v, header) THEN Reply(401, "Malformed token")
  ELSE IF ~JwtVerifyOk(header[2], JWT_SECRET, t) THEN Reply(401, "Invalid token")
  ELSE NoResp

\* ---------------------------------------------------------- the history

\* one write of the store: op is "insert" (signup), "set" (request-reset),
\* "redeem" (verify-reset) or "change" (change-password); val is the password
\* or the code written, at the time of the write, gen the number of codes
\* stored before the lookup of the request that writes.  A request keeps in
\* gen what its lookup saw: the number of codes stored (verify-reset) or the
\* number of passwords written (login, change-password) to the account
Write(op, val, at, gen) == [op |-> op, val |-> val, at |-> at, gen |-> gen]

Logged(e, w) ==
  [f \in Emails |-> IF f = e /\ SelectByEmail(e) # {} THEN Append(log[f], w) ELSE log[f]]

LoggedById(id, w) ==
  [f \in Emails |-> IF \E r \in SelectById(id) : r.email = f THEN Append(log[f], w) ELSE log[f]]

\* the writes of log[e] whose op is in ops, in order
RECURSIVE Only(_, _)
Only(l, ops) ==
  IF l = <<>> THEN <<>>
  ELSE IF l[1].op \in ops THEN <<l[1]>> \o Only(Tail(l), ops)
  ELSE Only(Tail(l), ops)

Issued(e) == Len(Only(log[e], {"set"}))

PwWritten(e) == Len(Only(log[e], {"insert", "redeem", "change"}))

\* --------------------------------------------------------------- handlers

\* a request arrives and takes the first free slot
Arrives(p) ==
  /\ pc[p] = "idle"
  /\ \A q \in Procs : q < p => pc[q] # "idle"
  /\ nreq < MaxReq
  /\ nreq' = nreq + 1

\* the handler of request rq sends its response and ends
Respond(p, rq, r) ==
  /\ last' = [req |-> rq, resp |-> r]
  /\ pc' = [pc EXCEPT ![p] = "idle"]
  /\ req' = [req EXCEPT ![p] = NoReq]

\* the handler of request rq awaits its next store statement
Await(p, rq, label) ==
  /\ pc' = [pc EXCEPT ![p] = label]
  /\ req' = [req EXCEPT ![p] = rq]
  /\ UNCHANGED last

\* ------------------------------------------------------------------ Init

Init ==
  /\ variant \in Variants
  /\ users1 = {}
  /\ users1_id_seq = 1
  /\ now = 0
  /\ pc = [p \in Procs |-> "idle"]
  /\ req = [p \in Procs |-> NoReq]
  /\ last = [req |-> NoReq, resp |-> NoResp]
  /\ tokens = {}
  /\ log = [e \in Emails |-> <<>>]
  /\ nreq = 0

\* ---------------------------------------------------------------- signup

\* POST /api/auth/signup: validation, then (production) the lookup
Signup(p, e, pw) ==
  /\ Arrives(p)
  /\ LET rq == [NoReq EXCEPT !.kind = "signup", !.email = e, !.password = pw]
     IN IF ~ValidSignupBody(e, pw)
          THEN Respond(p, rq, Reply(400, "errors"))
          ELSE IF variant # "local" /\ SelectByEmail(e) # {}
            THEN Respond(p, rq, Reply(400, "User already exists"))
            ELSE Await(p, rq, "signup_insert")
  /\ UNCHANGED <<variant, users1, users1_id_seq, now, tokens, log>>

\* bcrypt.hash, then INSERT INTO users1 (email, password) VALUES ($1, $2);
\* the sequence value is taken whether or not the row is accepted
SignupInsert(p, salt) ==
  /\ pc[p] = "signup_insert"
  /\ users1_id_seq' = users1_id_seq + 1
  /\ IF UniqueViolation(req[p].email)
       THEN /\ users1' = users1
            /\ log' = log
            /\ Respond(p, req[p], Reply(500, "Signup failed"))
       ELSE /\ users1' = users1 \cup
                 {Row(users1_id_seq, req[p].email,
                      BcryptHash(req[p].password, SALT_ROUNDS, salt))}
            /\ log' = [log EXCEPT ![req[p].email] =
                         Append(@, Write("insert", req[p].password, now, 0))]
            /\ Respond(p, req[p], Reply(200, "Signup successful"))
  /\ UNCHANGED <<variant, now, tokens, nreq>>

\* ----------------------------------------------------------------- login

\* mutant: an unknown email is answered differently from a wrong password
LoginReplyUnknownUser(rows, pw, t) ==
  IF rows = {} THEN Reply(404, "User not found")
  ELSE LET user == FirstRow(rows) IN
       IF ~BcryptCompare(pw, user.password) THEN Reply(401, "Invalid credentials")
       ELSE ReplyLogin(JwtSign(user.id, user.email, JWT_SECRET, t), user)

\* the response of the production login to the rows of its lookup
LoginReply(rows, pw, t) ==
  IF rows = {} THEN Reply(401, "Invalid credentials")
  ELSE LET user == FirstRow(rows) IN
       IF ~BcryptCompare(pw, user.password) THEN Reply(401, "Invalid credentials")
       ELSE ReplyLogin(JwtSign(user.id, user.email, JWT_SECRET, t), user)

\* POST /api/auth/login: the lookup, answered 401 when no row is found.  The
\* local version reads table users, which no statement of the repository
\* creates: the query throws
Login(p, e, pw) ==
  /\ Arrives(p)
  /\ LET rq == [NoReq EXCEPT !.kind = "login", !.email = e, !.password = pw]
         rows == SelectByEmail(e)
     IN IF variant = "local" THEN Respond(p, rq, Reply(500, "Login failed"))
        ELSE IF rows = {} THEN Respond(p, rq, LoginReply(rows, pw, now))
        ELSE Await(p, [rq EXCEPT !.row = Some(FirstRow(rows)), !.gen = PwWritten(e)],
                   "login_compare")
  /\ UNCHANGED <<variant, users1, users1_id_seq, now, tokens, log>>

\* bcrypt.compare has settled: 401, or jwt.sign at the clock of this step
\* and the response; the client has the token once it is sent
LoginCompare(p) ==
  /\ pc[p] = "login_compare"
  /\ LET r == LoginReply({req[p].row[1]}, req[p].password, now)
     IN /\ Respond(p, req[p], r)
        /\ tokens' = tokens \cup {r.token[i] : i \in DOMAIN r.token}
  /\ UNCHANGED <<variant, users1, users1_id_seq, now, log, nreq>>

\* --------------------------------------------------------- request-reset

\* POST /api/auth/request-reset: generateOtp, then (production) the lookup
RequestReset(p, e, draw) ==
  /\ Arrives(p)
  /\ LET rq == [NoReq EXCEPT !.kind = "request-reset", !.email = e, !.otp = generateOtp(draw)]
     IN IF variant # "local" /\ SelectByEmail(e) = {}
          THEN Respond(p, rq, Reply(404, "User not found"))
          ELSE Await(p, rq, "rr_update")
  /\ UNCHANGED <<variant, users1, users1_id_seq, now, tokens, log>>

\* the response to the outcome of sendOtpEmail: production and first get
\* false from a failed delivery, the local version a rejected promise and
\* its catch
SendReply(v, delivered) ==
  IF v = "first"
    THEN IF delivered THEN Reply(200, "OTP sent successfully")
         ELSE Reply(500, "Email send failed")
  ELSE IF delivered THEN Reply(200, "OTP sent to email")
  ELSE IF v = "production" THEN Reply(500, "Failed to send OTP email")
  ELSE Reply(500, "Could not send OTP")

\* the UPDATE that stores the code and its expiry; the handler then awaits
\* sendOtpEmail
RequestResetUpdate(p) ==
  /\ pc[p] = "rr_update"
  /\ users1' = UpdateResetCode(req[p].email, req[p].otp, now)
  /\ log' = Logged(req[p].email, Write("set", req[p].otp, now, Issued(req[p].email) + 1))
  /\ Await(p, req[p], "rr_send")
  /\ UNCHANGED <<variant, users1_id_seq, now, tokens, nreq>>

\* sendOtpEmail has delivered or failed: the response
RequestResetSend(p, delivered) ==
  /\ pc[p] = "rr_send"
  /\ Respond(p, req[p], SendReply(variant, delivered))
  /\ UNCHANGED <<variant, users1, users1_id_seq, now, tokens, log, nreq>>

\* ---------------------------------------------------------- verify-reset

\* POST /api/auth/verify-reset: the lookup of the pending code
VerifyReset(p, e, otp, npw) ==
  /\ Arrives(p)
  /\ LET rq == [NoReq EXCEPT !.kind = "verify-reset", !.email = e, !.otp = otp,
                             !.newPassword = npw, !.gen = Issued(e)]
     IN IF SelectPendingReset(e, otp, now) = {}
          THEN Respond(p, rq, Reply(400, "Invalid or expired OTP"))
          ELSE Await(p, rq, "vr_update")
  /\ UNCHANGED <<variant, users1, users1_id_seq, now, tokens, log>>

\* bcrypt.hash, then the UPDATE of the password that clears the code
VerifyResetUpdate(p, salt) ==
  /\ pc[p] = "vr_update"
  /\ users1' = UpdatePasswordClearReset(req[p].email,
                  BcryptHash(req[p].newPassword, SALT_ROUNDS, salt))
  /\ log' = Logged(req[p].email, Write("redeem", req[p].newPassword, now, req[p].gen))
  /\ Respond(p, req[p], Reply(200, "Password reset successful"))
  /\ UNCHANGED <<variant, users1_id_seq, now, tokens, nreq>>

\* ------------------------------------------------------- change-password

\* POST /api/auth/change-password: verifyToken at the clock of the arrival;
\* the first version has no such route and express answers 404
ChangePassword(p, header, old, npw) ==
  /\ Arrives(p)
  /\ LET denied == verifyToken(variant, header, now)
         uid == IF denied = NoResp THEN Some(header[2].id) ELSE NULL
         rq == [NoReq EXCEPT !.kind = "change-password", !.header = header,
                             !.password = old, !.newPassword = npw, !.uid = uid]
     IN IF variant = "first"
          THEN Respond(p, [rq EXCEPT !.uid = NULL], Reply(404, "Cannot POST"))
          ELSE IF denied # NoResp
            THEN Respond(p, rq, denied)
            ELSE Await(p, rq, "cp_select")
  /\ UNCHANGED <<variant, users1, users1_id_seq, now, tokens, log>>

\* the lookup by the id of the token; with no row rows[0] is undefined and
\* user.password throws into the catch block
ChangePasswordSelect(p) ==
  /\ pc[p] = "cp_select"
  /\ LET rows == SelectById(req[p].uid[1])
     IN IF rows = {}
          THEN Respond(p, req[p], Reply(500, "Change password failed"))
          ELSE Await(p, [req[p] EXCEPT !.row = Some(FirstRow(rows)),
                                       !.gen = PwWritten(FirstRow(rows).email)],
                     "cp_compare")
  /\ UNCHANGED <<variant, users1, users1_id_seq, now, tokens, log, nreq>>

\* bcrypt.compare of the old password with the hash that was read has settled
ChangePasswordCompare(p) ==
  /\ pc[p] = "cp_compare"
  /\ IF ~BcryptCompare(req[p].password, req[p].row[1].password)
       THEN Respond(p, req[p], Reply(400, "Old password incorrect"))
       ELSE Await(p, req[p], "cp_update")
  /\ UNCHANGED <<variant, users1, users1_id_seq, now, tokens, log, nreq>>

\* bcrypt.hash, then UPDATE users1 SET password=$1 WHERE id=$2
ChangePasswordUpdate(p, salt) ==
  /\ pc[p] = "cp_update"
  /\ users1' = UpdatePassword(req[p].uid[1],
                  BcryptHash(req[p].newPassword, SALT_ROUNDS, salt))
  /\ log' = LoggedById(req[p].uid[1], Write("change", req[p].newPassword, now, 0))
  /\ Respond(p, req[p], Reply(200, "Password changed"))
  /\ UNCHANGED <<variant, users1_id_seq, now, tokens, nreq>>

\* -------------------------------------------------------------------- me

\* GET /api/auth/me (production, first): verifyToken at the clock of the
\* arrival; the local version has no such route and the request falls to
\* app.get('*'), which sends the frontend page
GetProfile(p, header) ==
  /\ Arrives(p)
  /\ LET denied == verifyToken(variant, header, now)
         uid == IF denied = NoResp THEN Some(header[2].id) ELSE NULL
         rq == [NoReq EXCEPT !.kind = "me", !.header = header, !.uid = uid]
     IN IF variant = "local"
          THEN Respond(p, [rq EXCEPT !.uid = NULL], Reply(200, "index.html"))
          ELSE IF denied # NoResp
            THEN Respond(p, rq, denied)
            ELSE Await(p, rq, "me_select")
  /\ UNCHANGED <<variant, users1, users1_id_seq, now, tokens, log>>

\* SELECT id, email FROM users1 WHERE id=$1 and the response
GetProfileSelect(p) ==
  /\ pc[p] = "me_select"
  /\ LET rows == SelectById(req[p].uid[1])
     IN IF rows = {}
          THEN Respond(p, req[p], Reply(404, "User not found"))
          ELSE Respond(p, req[p], ReplyUser(FirstRow(rows)))
  /\ UNCHANGED <<variant, users1, users1_id_seq, now, tokens, log, nreq>>

\* ----------------------------------------------------------- environment

\* time passes
Tick(d) ==
  /\ now + d <= MaxTime
  /\ now' = now + d
  /\ UNCHANGED <<variant, users1, users1_id_seq, pc, req, last, tokens, log, nreq>>

\* the signup and reset flows
Next ==
  \/ \E p \in Procs, b \in SignupBodies : Signup(p, b[1], b[2])
  \/ \E p \in Procs, s \in Salts : SignupInsert(p, s)
  \/ \E p \in Procs, e \in Emails, d \in RandomDraws : RequestReset(p, e, d)
  \/ \E p \in Procs : RequestResetUpdate(p)
  \/ \E p \in Procs, ok \in BOOLEAN : RequestResetSend(p, ok)
  \/ \E p \in Procs, e \in Emails, o \in OtpInputs : VerifyReset(p, e, o, "secret2")
  \/ \E p \in Procs, s \in Salts : VerifyResetUpdate(p, s)
  \/ \E d \in TickSteps : Tick(d)

Spec == Init /\ [][Next]_vars

\* ------------------------------------------------- the life of a session

InitSession ==
  /\ variant \in SessionVariants
  /\ users1 = {}
  /\ users1_id_seq = 1
  /\ now = 0
  /\ pc = [p \in Procs |-> "idle"]
  /\ req = [p \in Procs |-> NoReq]
  /\ last = [req |-> NoReq, resp |-> NoResp]
  /\ tokens = {}
  /\ log = [e \in Emails |-> <<>>]
  /\ nreq = 0

\* time passes, by half the life of a token
SessionTick(d) ==
  /\ now + d <= MaxSessionTime
  /\ now' = now + d
  /\ UNCHANGED <<variant, users1, users1_id_seq, pc, req, last, tokens, log, nreq>>

\* another client of the database deletes the account of e (no statement
\* of the server deletes a row)
AccountDeleted(e) ==
  /\ SelectByEmail(e) # {}
  /\ users1' = users1 \ SelectByEmail(e)
  /\ UNCHANGED <<variant, users1_id_seq, now, pc, req, last, tokens, log, nreq>>

NextSession ==
  \/ \E p \in Procs : Signup(p, "a@x.com", "secret1")
  \/ \E p \in Procs, s \in Salts : SignupInsert(p, s)
  \/ \E p \in Procs : Login(p, "a@x.com", "secret1")
  \/ \E p \in Procs : LoginCompare(p)
  \/ \E p \in Procs, h \in SessionHeaders : ChangePassword(p, h, "secret1", "secret2")
  \/ \E p \in Procs : ChangePasswordSelect(p)
  \/ \E p \in Procs : ChangePasswordCompare(p)
  \/ \E p \in Procs, s \in Salts : ChangePasswordUpdate(p, s)
  \/ \E p \in Procs, h \in SessionHeaders : GetProfile(p, h)
  \/ \E p \in Procs : GetProfileSelect(p)
  \/ \E d \in SessionTickSteps : SessionTick(d)
  \/ AccountDeleted("a@x.com")

SpecSession == InitSession /\ [][NextSession]_vars

\* ------------------------------------------------- all flows of an account

\* the headers that carry a token the client received
BearerHeaders == {<<"Bearer", t>> : t \in tokens}

\* every flow, for one account and a second one that only signs up
NextAccount ==
  \/ \E p \in Procs, e \in Emails : Signup(p, e, "secret1")
  \/ \E p \in Procs, s \in Salts : SignupInsert(p, s)
  \/ \E p \in Procs, pw \in LoginPasswords : Login(p, "a@x.com", pw)
  \/ \E p \in Procs : LoginCompare(p)
  \/ \E p \in Procs : RequestReset(p, "a@x.com", 0)
  \/ \E p \in Procs : RequestResetUpdate(p)
  \/ \E p \in Procs, ok \in BOOLEAN : RequestResetSend(p, ok)
  \/ \E p \in Procs, pw \in NewPasswords : VerifyReset(p, "a@x.com", "100000", pw)
  \/ \E p \in Procs, s \in Salts : VerifyResetUpdate(p, s)
  \/ \E p \in Procs, h \in BearerHeaders, old \in LoginPasswords, pw \in NewPasswords :
       ChangePassword(p, h, old, pw)
  \/ \E p \in Procs : ChangePasswordSelect(p)
  \/ \E p \in Procs : ChangePasswordCompare(p)
  \/ \E p \in Procs, s \in Salts : ChangePasswordUpdate(p, s)
  \/ \E p \in Procs, h \in BearerHeaders : GetProfile(p, h)
  \/ \E p \in Procs : GetProfileSelect(p)
  \/ \E d \in TickSteps : Tick(d)

SpecAccount == Init /\ [][NextAccount]_vars

\* ------------------------------------------------ failures of the store

\* the response of the catch block of the handler of a kind of request
Catch(v, kind) ==
  IF kind = "signup" THEN Reply(500, "Signup failed")
  ELSE IF kind = "login" THEN Reply(500, "Login failed")
  ELSE IF kind = "request-reset"
    THEN IF v = "first" THEN Reply(500, "Request failed") ELSE Reply(500, "Could not send OTP")
  ELSE IF kind = "verify-reset" THEN Reply(500, "Reset failed")
  ELSE IF kind = "change-password" THEN Reply(500, "Change password failed")
  ELSE IF v = "first" THEN Reply(500, "Profile fetch failed")
  ELSE Reply(500, "Failed to get user profile")

\* the labels at which a handler awaits a store statement
StoreLabels == {"signup_insert", "rr_update", "vr_update", "cp_select", "cp_update", "me_select"}

\* mutant: the handler has no catch block; the rejection is unhandled and
\* no response is ever sent
StoreFailsUncaught(p) ==
  /\ pc[p] \in StoreLabels
  /\ pc' = [pc EXCEPT ![p] = "rejected"]
  /\ UNCHANGED <<variant, users1, users1_id_seq, now, req, last, tokens, log, nreq>>

\* the statement that the handler of slot p awaits throws: dbQuery rethrows
\* and the catch block of the handler answers 500
StoreFails(p) ==
  /\ pc[p] \in StoreLabels
  /\ Respond(p, req[p], Catch(variant, req[p].kind))
  /\ UNCHANGED <<variant, users1, users1_id_seq, now, tokens, log, nreq>>

\* the requests whose handler runs a store statement in the step of their
\* arrival
ReachesStore(rq) ==
  IF rq.kind = "signup" THEN variant # "local" /\ ValidSignupBody(rq.email, rq.password)
  ELSE IF rq.kind = "login" THEN TRUE
  ELSE IF rq.kind = "request-reset" THEN variant # "local"
  ELSE rq.kind = "verify-reset"

\* a request arrives and the first statement of its handler throws
FirstStatementFails(p, kind) ==
  /\ Arrives(p)
  /\ LET rq == [NoReq EXCEPT !.kind = kind, !.email = "a@x.com", !.password = "secret1",
                             !.otp = "100000", !.newPassword = "secret2"]
     IN /\ ReachesStore(rq)
        /\ Respond(p, rq, Catch(variant, kind))
  /\ UNCHANGED <<variant, users1, users1_id_seq, now, tokens, log>>

\* the next step of the handler of slot p, whatever its outcome
Continue(p) ==
  \/ \E s \in Salts : SignupInsert(p, s)
  \/ LoginCompare(p)
  \/ RequestResetUpdate(p)
  \/ \E ok \in BOOLEAN : RequestResetSend(p, ok)
  \/ \E s \in Salts : VerifyResetUpdate(p, s)
  \/ ChangePasswordSelect(p)
  \/ ChangePasswordCompare(p)
  \/ \E s \in Salts : ChangePasswordUpdate(p, s)
  \/ GetProfileSelect(p)
  \/ StoreFails(p)

Kinds == {"signup", "login", "request-reset", "verify-reset", "change-password", "me"}

NextLive ==
  \/ \E p \in Procs, e \in {"a@x.com", "a.x.com"} : Signup(p, e, "secret1")
  \/ \E p \in Procs : Login(p, "a@x.com", "secret1")
  \/ \E p \in Procs : RequestReset(p, "a@x.com", 0)
  \/ \E p \in Procs, pw \in NewPasswords : VerifyReset(p, "a@x.com", "100000", pw)
  \/ \E p \in Procs, h \in Headers : ChangePassword(p, h, "secret1", "secret2")
  \/ \E p \in Procs, h \in Headers : GetProfile(p, h)
  \/ \E p \in Procs, k \in Kinds : FirstStatementFails(p, k)
  \/ \E p \in Procs : Continue(p)

\* the event loop resumes a handler once the promise it awaits has settled
SpecLive ==
  /\ InitSession
  /\ [][NextLive]_vars
  /\ \A p \in Procs : WF_vars(Continue(p))

\* ------------------------------------------------- reading steps and history

\* a request arrives in this step
Arrival == nreq' = nreq + 1

\* the arriving request was answered in the step of its arrival
AnsweredAtOnce == pc' = pc

\* the request that arrives in this step
NewReq == IF pc' = pc THEN last'.req ELSE req'[CHOOSE p \in Procs : pc'[p] # pc[p]]

\* slot p sends the response of its handler's last store statement
Finishes(p, label) == pc[p] = label /\ pc'[p] = "idle"

LastOf(l) == l[Len(l)]

\* the writes of a password, and of a reset code, to the account of e
PwWrites(e) == Only(log[e], {"insert", "redeem", "change"})
CodeWrites(e) == Only(log[e], {"set", "redeem"})

InvalidOtp == Reply(400, "Invalid or expired OTP")

\* header is 'Bearer <token>' with a token signed by the server and not expired
ValidBearer(header) ==
  /\ header # NULL /\ Len(header) = 2 /\ header[1] = "Bearer"
  /\ header[2].sig = JWT_SECRET /\ now < header[2].exp

\* the password the account of e holds: the one written last
CurrentPassword(e) == LastOf(PwWrites(e)).val

\* ------------------------------------------------------------------ claims

\* C1: of the VerifyReset requests that present the same pending reset code
\* of one account (the code stored by one RequestReset), at most one
\* succeeds, under any interleaving.
C1_AtMostOneVerifyPerCode ==
  variant = "production" =>
    \A e \in Emails : \A i, j \in DOMAIN log[e] :
      (log[e][i].op = "redeem" /\ log[e][j].op = "redeem" /\ log[e][i].gen = log[e][j].gen)
        => i = j

\* C2: the store holds at most one account per email, at most one Signup per
\* email has returned success, and once a Signup that reached the insert has
\* been answered exactly one Signup for its email has returned success.
C2_OneAccountPerEmail ==
  \A e \in Emails :
    /\ Cardinality(SelectByEmail(e)) <= 1
    /\ Len(Only(log[e], {"insert"})) <= 1
    /\ (last.req.kind = "signup" /\ last.req.email = e /\ last.resp.status \in {200, 500})
         => Len(Only(log[e], {"insert"})) = 1

\* two concurrent Signups of one email passed the lookup; the second insert lost
C2_Witness ==
  /\ variant = "production"
  /\ last.req.kind = "signup" /\ last.resp.status = 500
  /\ Cardinality(SelectByEmail(last.req.email)) = 1

\* C3: a Signup whose email is registered when the handler looks it up, or
\* when its insert is attempted, is answered 400 'User already exists'.
C3_DuplicateSignupAnswered400 ==
  [][/\ (Arrival /\ NewReq.kind = "signup" /\ ValidSignupBody(NewReq.email, NewReq.password)
           /\ variant = "production" /\ SelectByEmail(NewReq.email) # {})
          => last'.resp = Reply(400, "User already exists")
     /\ \A p \in Procs :
          (Finishes(p, "signup_insert") /\ SelectByEmail(req[p].email) # {})
            => last'.resp = Reply(400, "User already exists")]_vars

\* C4: a VerifyReset that arrives with the code a RequestReset stored last,
\* within 5 minutes of that write, passes the lookup and is answered
\* 'Password reset successful'; a VerifyReset that arrives after a VerifyReset
\* has written, with no RequestReset write since, is answered
\* INVALID_OR_EXPIRED_OTP.
C4_OtpAcceptedExactlyOnce ==
  [][/\ (Arrival /\ NewReq.kind = "verify-reset" /\ CodeWrites(NewReq.email) # <<>>)
          => LET w == LastOf(CodeWrites(NewReq.email)) IN
             /\ (w.op = "set" /\ w.val = NewReq.otp /\ now < w.at + OTP_EXP_MINUTES)
                  => ~AnsweredAtOnce
             /\ w.op = "redeem" => (AnsweredAtOnce /\ last'.resp = InvalidOtp)
     /\ \A p \in Procs :
          Finishes(p, "vr_update")
            => last' = [req |-> req[p], resp |-> Reply(200, "Password reset successful")]]_vars

\* the code that was just redeemed is presented again, inside its window
C4_Witness ==
  /\ last.req.kind = "verify-reset" /\ last.resp = InvalidOtp
  /\ LET cw == CodeWrites(last.req.email) IN
       /\ Len(cw) >= 2
       /\ cw[Len(cw)].op = "redeem"
       /\ cw[Len(cw) - 1].op = "set"
       /\ cw[Len(cw) - 1].val = last.req.otp
       /\ now < cw[Len(cw) - 1].at + OTP_EXP_MINUTES

\* C5: a VerifyReset that arrives 5 minutes or more after the write of the
\* pending code is answered INVALID_OR_EXPIRED_OTP, whatever code it
\* presents, and writes nothing.
C5_ExpiredCodeRejected ==
  [][(Arrival /\ NewReq.kind = "verify-reset" /\ CodeWrites(NewReq.email) # <<>>)
       => LET w == LastOf(CodeWrites(NewReq.email)) IN
          (w.op = "set" /\ now >= w.at + OTP_EXP_MINUTES)
            => (AnsweredAtOnce /\ last'.resp = InvalidOtp /\ users1' = users1)]_vars

\* the pending code itself is presented at its expiry and refused
C5_Witness ==
  /\ last.req.kind = "verify-reset" /\ last.resp = InvalidOtp
  /\ CodeWrites(last.req.email) # <<>>
  /\ LET w == LastOf(CodeWrites(last.req.email)) IN
       w.op = "set" /\ w.val = last.req.otp /\ now >= w.at + OTP_EXP_MINUTES

\* C9: in every account reset_expires is NULL whenever reset_otp is NULL.
C9_ExpiryNullWhenCodeNull ==
  \A r \in users1 : r.reset_otp = NULL => r.reset_expires = NULL

\* an account whose code was set and then cleared by a VerifyReset
C9_Witness ==
  \E r \in users1 :
    /\ r.reset_otp = NULL
    /\ \E i \in DOMAIN log[r.email] : log[r.email][i].op = "redeem"

\* C6: a Login that arrives with the email and password of a Signup that
\* succeeded, the account's password not written since, reaches the
\* comparison of the password, and is then answered with a token that
\* verifyToken accepts and that carries the account's id and email.
C6_SignupThenLogin ==
  [][/\ (Arrival /\ NewReq.kind = "login" /\ Len(PwWrites(NewReq.email)) = 1
           /\ PwWrites(NewReq.email)[1].val = NewReq.password)
          => ~AnsweredAtOnce
     /\ \A p \in Procs :
          (Finishes(p, "login_compare") /\ req[p].gen = 1
             /\ PwWrites(req[p].email)[1].val = req[p].password)
            => /\ last'.req = req[p]
               /\ last'.resp.status = 200
               /\ last'.resp.token # NULL
               /\ JwtVerifyOk(last'.resp.token[1], JWT_SECRET, now)
               /\ \E r \in users1 :
                    /\ r.email = req[p].email
                    /\ last'.resp.token[1].id = r.id
                    /\ last'.resp.token[1].email = r.email]_vars

\* C7: in the production handlers a Login for an email with no account and
\* a Login with a password other than the one the account held when the
\* handler read its row get the same response, 401 'Invalid credentials',
\* and no step of either changes the store.
C7_LoginFailuresIndistinguishable ==
  [][variant = "production" =>
       /\ (Arrival /\ NewReq.kind = "login")
            => /\ UNCHANGED <<users1, users1_id_seq, tokens, log>>
               /\ PwWrites(NewReq.email) = <<>>
                    => (AnsweredAtOnce /\ last'.resp = Reply(401, "Invalid credentials"))
       /\ \A p \in Procs :
            (Finishes(p, "login_compare")
               /\ PwWrites(req[p].email)[req[p].gen].val # req[p].password)
              => /\ last' = [req |-> req[p], resp |-> Reply(401, "Invalid credentials")]
                 /\ UNCHANGED <<users1, users1_id_seq, tokens, log>>]_vars

\* a wrong password for an account that exists, answered as an unknown email is
C7_Witness ==
  /\ variant = "production"
  /\ last.req.kind = "login" /\ last.resp = Reply(401, "Invalid credentials")
  /\ last.req.row # NULL
  /\ PwWrites(last.req.email)[last.req.gen].val # last.req.password
  /\ \E e \in Emails : PwWrites(e) = <<>>

\* C8: in the production handlers, a Login that arrives while the last
\* write of an account's password is that of a ChangePassword reads the
\* hash of that write; it is answered with a token when it presents the new
\* password and 401 'Invalid credentials' when it presents any other.
C8_LoginAfterChangePassword ==
  [][variant = "production" =>
       /\ (Arrival /\ NewReq.kind = "login" /\ PwWrites(NewReq.email) # <<>>
             /\ LastOf(PwWrites(NewReq.email)).op = "change")
            => /\ ~AnsweredAtOnce
               /\ NewReq.gen = Len(PwWrites(NewReq.email))
       /\ \A p \in Procs :
            (Finishes(p, "login_compare")
               /\ PwWrites(req[p].email)[req[p].gen].op = "change")
              => /\ last'.req = req[p]
                 /\ IF req[p].password = PwWrites(req[p].email)[req[p].gen].val
                      THEN last'.resp.status = 200 /\ last'.resp.token # NULL
                      ELSE last'.resp = Reply(401, "Invalid credentials")]_vars

\* after a ChangePassword to another password, the Login with the old one is refused
C8_Witness ==
  /\ last.req.kind = "login" /\ last.resp = Reply(401, "Invalid credentials")
  /\ last.req.gen = 2
  /\ LET w == PwWrites(last.req.email) IN
       /\ Len(w) = 2
       /\ w[1].op = "insert" /\ w[1].val = last.req.password
       /\ w[2].op = "change" /\ w[2].val # last.req.password

\* C10: a VerifyReset passes the lookup only with the code that the last
\* RequestReset write stored for the account; one that arrives with another
\* code (an earlier one, overwritten) is answered INVALID_OR_EXPIRED_OTP.
C10_OnlyLatestCodeAccepted ==
  [][(Arrival /\ NewReq.kind = "verify-reset")
       => LET sets == Only(log[NewReq.email], {"set"}) IN
          /\ ~AnsweredAtOnce => (sets # <<>> /\ LastOf(sets).val = NewReq.otp)
          /\ (sets # <<>> /\ LastOf(sets).val # NewReq.otp)
               => (AnsweredAtOnce /\ last'.resp = InvalidOtp)]_vars

\* the first of two different codes is presented while the second is pending
C10_Witness ==
  /\ last.req.kind = "verify-reset" /\ last.resp = InvalidOtp
  /\ LET cw == CodeWrites(last.req.email) IN
       /\ Len(cw) = 2
       /\ cw[1].op = "set" /\ cw[1].val = last.req.otp
       /\ cw[2].op = "set" /\ cw[2].val # last.req.otp
       /\ now < cw[1].at + OTP_EXP_MINUTES

\* C11: the UPDATE of a RequestReset leaves the account with the code and
\* the expiry of this request (whatever code was pending before is
\* overwritten, one code is pending) and touches no other account; the step
\* that answers after sendOtpEmail answers 200, or 500 when the delivery
\* failed, and in both cases leaves the store as it is: the failure undoes
\* nothing.
C11_DeliveryFailureKeepsCode ==
  [][\A p \in Procs :
       /\ (pc[p] = "rr_update" /\ pc'[p] # pc[p])
            => /\ pc'[p] = "rr_send" /\ last' = last
               /\ \A r \in users1' :
                    IF r.email = req[p].email
                      THEN /\ r.reset_otp = Some(req[p].otp)
                           /\ r.reset_expires = Some(now + OTP_EXP_MINUTES)
                      ELSE r \in users1
       /\ Finishes(p, "rr_send")
            => /\ last'.req = req[p]
               /\ last'.resp \in {Reply(200, "OTP sent to email"),
                                  Reply(500, "Failed to send OTP email"),
                                  Reply(500, "Could not send OTP")}
               /\ users1' = users1]_vars

\* a delivery failed; the code of this request replaced the code of an
\* earlier RequestReset and is the one pending when the 500 is sent
C11_Witness ==
  /\ last.req.kind = "request-reset" /\ last.resp.status = 500
  /\ LET sets == Only(log[last.req.email], {"set"}) IN
       /\ Len(sets) = 2
       /\ sets[1].val # sets[2].val /\ sets[1].at < sets[2].at
       /\ sets[2].val = last.req.otp
       /\ \E r \in users1 :
            /\ r.email = last.req.email
            /\ r.reset_otp = Some(last.req.otp)
            /\ r.reset_expires = Some(sets[2].at + OTP_EXP_MINUTES)

\* C12: a RequestReset that arrives for an email with no account is
\* answered 404 'User not found' at once: it never reaches the UPDATE or
\* sendOtpEmail, and the store is unchanged.
C12_UnknownEmailNotFound ==
  [][(Arrival /\ NewReq.kind = "request-reset" /\ SelectByEmail(NewReq.email) = {})
       => /\ AnsweredAtOnce
          /\ last'.resp = Reply(404, "User not found")
          /\ users1' = users1]_vars

\* C13: a ChangePassword with a valid token whose old password is not the
\* password the account held when the handler read its row is answered 400
\* 'Old password incorrect' when the comparison settles, and no step of the
\* request changes the store (password hash, reset code, reset expiry of
\* every account).
C13_WrongOldPasswordRejected ==
  [][\A p \in Procs :
       /\ (pc[p] \in {"cp_select", "cp_compare"} /\ pc'[p] # pc[p])
            => (users1' = users1 /\ log' = log)
       /\ (pc[p] = "cp_compare" /\ pc'[p] # pc[p]
             /\ PwWrites(req[p].row[1].email)[req[p].gen].val # req[p].password)
            => last' = [req |-> req[p], resp |-> Reply(400, "Old password incorrect")]]_vars

\* the wrong old password was presented while a reset code was pending
C13_Witness ==
  /\ last.req.kind = "change-password"
  /\ last.resp = Reply(400, "Old password incorrect")
  /\ \E r \in users1 :
       /\ last.req.uid = Some(r.id)
       /\ r.reset_otp # NULL /\ r.reset_expires # NULL
       /\ PwWrites(r.email)[last.req.gen].val # last.req.password

\* the version deployed has a route for this kind of request
HasRoute(kind) ==
  /\ kind = "me" => variant # "local"
  /\ kind = "change-password" => variant # "first"

\* C14: a ChangePassword or GetProfile request that arrives with no
\* Authorization header, with one that is not 'Bearer <token>', or with a
\* token signed with another secret or one hour or more past its issuance, is
\* answered 401 by verifyToken at once and the store is unchanged.
C14_BadHeaderAnswered401 ==
  [][(Arrival /\ NewReq.kind \in {"change-password", "me"} /\ HasRoute(NewReq.kind)
        /\ ~ValidBearer(NewReq.header))
       => /\ AnsweredAtOnce
          /\ last'.resp \in {Reply(401, "No token provided"), Reply(401, "Malformed token"),
                             Reply(401, "Invalid token")}
          /\ users1' = users1 /\ log' = log]_vars

\* C15: a GetProfile that arrives with a valid token reaches the lookup;
\* when the lookup completes it is answered with exactly the id and the
\* email of the account whose id the token carries (no other field), or with
\* 404 'User not found' when no account has that id; no step of the request
\* changes the store.
C15_ProfileOfTokenAccount ==
  [][/\ (Arrival /\ NewReq.kind = "me" /\ variant # "local" /\ ValidBearer(NewReq.header))
          => /\ ~AnsweredAtOnce
             /\ NewReq.uid = Some(NewReq.header[2].id)
             /\ users1' = users1 /\ log' = log /\ users1_id_seq' = users1_id_seq
     /\ \A p \in Procs :
          (pc[p] = "me_select" /\ pc'[p] # pc[p])
            => /\ pc'[p] = "idle" /\ last'.req = req[p]
               /\ users1' = users1 /\ log' = log /\ users1_id_seq' = users1_id_seq
               /\ IF \E r \in users1 : r.id = req[p].header[2].id
                    THEN \E r \in users1 :
                           /\ r.id = req[p].header[2].id
                           /\ last'.resp = [status |-> 200, text |-> "", token |-> NULL,
                                            user |-> Some([id |-> r.id, email |-> r.email])]
                    ELSE last'.resp = Reply(404, "User not found")]_vars

\* the profile of an account whose password was changed since the login
C15_Witness ==
  /\ last.req.kind = "me" /\ last.resp.status = 200
  /\ \E r \in users1 :
       /\ last.req.uid = Some(r.id)
       /\ last.resp.user = Some([id |-> r.id, email |-> r.email])
       /\ Len(PwWrites(r.email)) = 2

\* the account of the token was deleted and the profile is not found
C15_NotFoundReached ==
  /\ last.req.kind = "me" /\ last.resp = Reply(404, "User not found")
  /\ last.req.header \in {<<"Bearer", t>> : t \in tokens}

\* C16: a Signup that arrives with an email that is not an address, or with
\* a password of fewer than 6 characters, is answered 400 with the
\* validation errors at once; no account is created and the store and the
\* id sequence are unchanged.
C16_InvalidSignupRejected ==
  [][(Arrival /\ NewReq.kind = "signup"
        /\ (NewReq.email \notin Emails \/ Len(NewReq.password) < 6))
       => /\ AnsweredAtOnce
          /\ last'.resp = Reply(400, "errors")
          /\ users1' = users1 /\ log' = log /\ users1_id_seq' = users1_id_seq]_vars

\* a short password for a registered email: the validation errors, not
\* 'User already exists'
C16_Witness ==
  /\ last.req.kind = "signup" /\ last.resp = Reply(400, "errors")
  /\ Len(last.req.password) < 6
  /\ SelectByEmail(last.req.email) # {}

\* C17: when a VerifyReset arrives for an account whose pending code has
\* expired, the account's reset code and reset expiry are NULL once the
\* request is answered.
C17_ExpiredAttemptClearsCode ==
  [][(Arrival /\ NewReq.kind = "verify-reset" /\ AnsweredAtOnce)
       => \A r \in users1 :
            (r.email = NewReq.email /\ r.reset_otp # NULL /\ r.reset_expires # NULL
               /\ r.reset_expires[1] <= now)
              => \A r2 \in users1' :
                   r2.email = r.email => (r2.reset_otp = NULL /\ r2.reset_expires = NULL)]_vars

\* the awaits of a handler that follow one another
NextAwait ==
  {<<"rr_update", "rr_send">>, <<"cp_select", "cp_compare">>, <<"cp_compare", "cp_update">>}

\* C18: every request is answered: a request whose handler awaits a store
\* call, a comparison or the Notifier is eventually answered, whether the
\* call succeeds or fails; a step of a waiting handler either moves it to
\* its next await and sends nothing, or sends one response to that request
\* and ends it; and the next step of a waiting handler is enabled whatever
\* the other requests do.
C18_EveryRequestAnswered ==
  /\ \A p \in Procs : (pc[p] # "idle") ~> (pc[p] = "idle")
  /\ [][/\ \A p \in Procs :
            (pc[p] # "idle" /\ pc'[p] # pc[p])
              => IF pc'[p] = "idle"
                   THEN last'.req = req[p] /\ last'.resp.status # 0
                   ELSE /\ last' = last
                        /\ <<pc[p], pc'[p]>> \in NextAwait
                        /\ req'[p].kind = req[p].kind
        /\ (Arrival /\ AnsweredAtOnce)
              => (last'.req.kind # "none" /\ last'.resp.status # 0)]_vars
  /\ [](\A p \in Procs : pc[p] # "idle" => ENABLED <<Continue(p)>>_vars)

\* the store call of a handler failed while another request was waiting,
\* and the 500 of the catch block was sent
C18_Witness ==
  /\ last.resp \in {Catch(variant, k) : k \in Kinds}
  /\ last.req.kind = "change-password"
  /\ \E p \in Procs : pc[p] # "idle"
  /\ nreq = MaxReq

\* C19: when the password write of a ChangePassword is applied and the
\* request is answered with success, the old password it presented is the
\* password the account holds at that moment.
C19_ChangeOnlyFromCurrentPassword ==
  [][\A p \in Procs :
       (Finishes(p, "cp_update") /\ last'.resp.status = 200)
         => \A r \in users1 :
              r.id = req[p].uid[1] => CurrentPassword(r.email) = req[p].password]_vars

\* C20: when the UPDATE of a VerifyReset is applied after a RequestReset
\* has stored a new code for the account since the lookup of that
\* VerifyReset, the new code and its expiry are still pending after the UPDATE.
C20_VerifyClearsOnlyMatchedCode ==
  [][\A p \in Procs :
       (/\ Finishes(p, "vr_update")
        /\ Issued(req[p].email) > req[p].gen
        /\ LastOf(CodeWrites(req[p].email)).op = "set")
         => LET w == LastOf(CodeWrites(req[p].email)) IN
            \A r \in users1' :
              r.email = req[p].email
                => (r.reset_otp = Some(w.val) /\ r.reset_expires = Some(w.at + OTP_EXP_MINUTES))]_vars

\* id, email and password hash of the accounts
Identity(rows) == {[id |-> r.id, email |-> r.email, password |-> r.password] : r \in rows}

\* C21: every step keeps every account, with its id and email; the password
\* hash of an account changes only in the write step of a VerifyReset for
\* its email (which follows a lookup that matched) or of a ChangePassword
\* for its id (which follows a matching old password); a step that answers
\* with an error, and every step of Signup, Login, RequestReset and
\* GetProfile, leaves id, email and password hash of every account as they were.
C21_PasswordChangesOnlyByResetOrChange ==
  [][/\ \A r \in users1 : \E x \in users1' :
          /\ x.id = r.id /\ x.email = r.email
          /\ x.password # r.password
               => \E p \in Procs :
                    \/ Finishes(p, "vr_update") /\ req[p].email = r.email
                    \/ Finishes(p, "cp_update") /\ req[p].uid = Some(r.id)
     /\ Identity(users1') # Identity(users1)
          => /\ last'.resp.status = 200
             /\ \E p \in Procs :
                  \/ Finishes(p, "vr_update") \/ Finishes(p, "cp_update")
                  \/ (/\ Finishes(p, "signup_insert")
                      /\ SelectByEmail(req[p].email) = {}
                      /\ Identity(users1) \subseteq Identity(users1'))]_vars

\* a ChangePassword wrote the password of one account while another
\* account holds the hash of its Signup
C21_Witness ==
  /\ last.req.kind = "change-password" /\ last.resp.status = 200
  /\ \E r, o \in users1 :
       /\ r.id # o.id
       /\ last.req.uid = Some(r.id)
       /\ LastOf(PwWrites(r.email)).op = "change"
       /\ Len(PwWrites(o.email)) = 1
       /\ o.password.key = PwWrites(o.email)[1].val

\* C22: every token a Login has issued carries the id and the email of an
\* account in the store; the lookup of a GetProfile that arrived with such a
\* token is never answered 404, and the lookup of a ChangePassword that
\* arrived with it finds a row (never the 500 of rows[0] undefined).
C22_TokensNameAccounts ==
  /\ [](\A t \in tokens : \E r \in users1 : r.id = t.id /\ r.email = t.email)
  /\ [][\A p \in Procs :
          (pc[p] \in {"me_select", "cp_select"} /\ pc'[p] # pc[p]
             /\ req[p].header[2] \in tokens)
            => /\ SelectById(req[p].uid[1]) # {}
               /\ pc[p] = "me_select" => last'.resp.status = 200
               /\ pc[p] = "cp_select" => pc'[p] = "cp_compare"]_vars

\* the profile of the second of two accounts, found by the id of its token
C22_Witness ==
  /\ last.req.kind = "me" /\ last.resp.status = 200
  /\ last.req.header \in {<<"Bearer", t>> : t \in tokens}
  /\ Cardinality(users1) = 2
  /\ \E r \in users1 : last.req.uid = Some(r.id) /\ r.id > 1

\* C23: the password every account holds has at least 6 characters.
C23_StoredPasswordsMeetSignupRule ==
  \A e \in Emails : PwWrites(e) # <<>> => Len(CurrentPassword(e)) >= 6

====
